---- MODULE Spec2Model ----
(***************************************************************************)
(* A model of the DrowsyGuard API (src/api/app.py): the users, sessions    *)
(* and detections tables of drowsiness.db and the request handlers that    *)
(* read and write them.  Every handler is one atomic action: the handlers  *)
(* are coroutines of one event loop and none of them awaits between its    *)
(* first SQL statement and its commit.                                     *)
(*                                                                         *)
(* Text is a sequence of one-character strings, so that str.lower() and    *)
(* the substring test are computed.  A confidence is an integer number of  *)
(* ten-thousandths (infer_image rounds to 4 decimals).  A safety score is  *)
(* an integer number of tenths (get_dashboard rounds to 1 decimal).        *)
(* Columns no handler reads back in a decision (password_hash, phone,      *)
(* latitude, longitude, distance_km, created_at) are left out of the rows. *)
(* resp is the last exchange: the handler, its parameters, and the HTTP     *)
(* status and JSON body it answered.                                       *)
(* SpecStatements runs detect_drowsiness one SQL statement at a time, for   *)
(* several requests at once: reqs is where each request stands, txn the    *)
(* open write transaction of the database file and its uncommitted rows;   *)
(* sessions and detections are what is committed.                          *)
(* The handlers that neither write a table nor are read by a property      *)
(* here (login_user, get_all_drivers, get_all_sessions, predict_frame,      *)
(* predict_image) are not modelled.                                        *)
(***************************************************************************)
EXTENDS Integers, Sequences, FiniteSets, TLC

VARIABLES model, users, sessions, detections, now, resp, reqs, txn

vars == <<model, users, sessions, detections, now, resp, reqs, txn>>

db == <<users, sessions, detections>>

----------------------------------------------------------------------------
(* Bounds of the model *)

\* Spec: how many rows the requests of a behaviour insert, plus the seconds
\* that pass
MaxWrites == 3

\* SpecScore: how many sessions and detections are inserted
MaxScoreWrites == 4

\* SpecClassify: how many frames are classified
MaxFrames == 1

\* SpecStatements: how many detect requests are in flight
MaxRequests == 2

----------------------------------------------------------------------------
(* Text *)

UpperAlpha == <<"A","B","C","D","E","F","G","H","I","J","K","L","M",
                "N","O","P","Q","R","S","T","U","V","W","X","Y","Z">>

LowerAlpha == <<"a","b","c","d","e","f","g","h","i","j","k","l","m",
                "n","o","p","q","r","s","t","u","v","w","x","y","z">>

LowerChar(c) ==
    IF \E i \in DOMAIN UpperAlpha : UpperAlpha[i] = c
    THEN LowerAlpha[CHOOSE i \in DOMAIN UpperAlpha : UpperAlpha[i] = c]
    ELSE c

\* str.lower()
Lower(s) == [i \in DOMAIN s |-> LowerChar(s[i])]

\* sub in s
Contains(sub, s) ==
    \E i \in 1..(Len(s) - Len(sub) + 1) : SubSeq(s, i, i + Len(sub) - 1) = sub

T_drowsy == <<"d","r","o","w","s","y">>

T_sleepy == <<"s","l","e","e","p","y">>

T_tired == <<"t","i","r","e","d">>

T_Drowsy == <<"D","r","o","w","s","y">>

T_TIRED == <<"T","I","R","E","D">>

T_awake == <<"a","w","a","k","e">>

T_not_drowsy == <<"n","o","t","_","d","r","o","w","s","y">>

T_model_error == <<"m","o","d","e","l","_","e","r","r","o","r">>

T_no_detection == <<"n","o","_","d","e","t","e","c","t","i","o","n">>

T_error == <<"e","r","r","o","r">>

----------------------------------------------------------------------------
(* Schema and start-up *)

NULL == -1

AdminUser == [id |-> 1, username |-> "admin",
              email |-> "admin@drowsyguard.com", role |-> "admin"]

\* the rows of a table as a set
Rows(table) == {table[i] : i \in DOMAIN table}

SessionExists(session_id) == \E s \in Rows(sessions) : s.id = session_id

UserExists(user_id) == \E u \in Rows(users) : u.id = user_id

\* the clock: datetime.now() and CURRENT_TIMESTAMP never run backwards
Tick ==
    /\ now' = now + 1
    /\ UNCHANGED <<reqs, txn, model, users, sessions, detections, resp>>

Requests == 1..MaxRequests

\* no write transaction is open on drowsiness.db
NoTxn == [owner |-> 0]

Init ==
    /\ reqs = [r \in Requests |-> [pc |-> "idle"]]
    /\ txn = NoTxn
    /\ model \in {"loaded", "None"}
    /\ users = <<AdminUser>>
    /\ sessions = <<>>
    /\ detections = <<>>
    /\ now = 0
    /\ resp = [op |-> "root", status |-> 200]

----------------------------------------------------------------------------
(* POST /users/register *)

\* the UNIQUE constraints of the users table
IntegrityError(username, email) ==
    \E u \in Rows(users) : u.username = username \/ u.email = email

\* The 403 is raised inside the try block and the handler has no
\* "except HTTPException: raise", so "except Exception" turns it into a 500.
register_user(username, email, role) ==
    /\ UNCHANGED <<reqs, txn, model, sessions, detections, now>>
    /\ IF role # "driver"
       THEN /\ resp' = [op |-> "register_user", status |-> 500]
            /\ UNCHANGED users
       ELSE IF IntegrityError(username, email)
       THEN /\ resp' = [op |-> "register_user", status |-> 400]
            /\ UNCHANGED users
       ELSE /\ users' = Append(users, [id |-> Len(users) + 1,
                                       username |-> username,
                                       email |-> email, role |-> "driver"])
            /\ resp' = [op |-> "register_user", status |-> 200,
                        user_id |-> Len(users) + 1]

----------------------------------------------------------------------------
(* POST /sessions/start *)

\* INSERT INTO sessions (user_id, start_time, ...): end_time is NULL and both
\* counters take their DEFAULT 0; AUTOINCREMENT ids are never reused and no
\* handler deletes a row.  Foreign keys are declared but sqlite3 does not
\* enforce them (no PRAGMA foreign_keys = ON), so any user_id is accepted.
InsertSession(sess, user_id, t) ==
    Append(sess, [id |-> Len(sess) + 1, user_id |-> user_id,
                  start_time |-> t, end_time |-> NULL,
                  total_detections |-> 0, drowsy_detections |-> 0])

start_session(user_id) ==
    /\ sessions' = InsertSession(sessions, user_id, now)
    /\ resp' = [op |-> "start_session", user_id |-> user_id,
                status |-> 200, session_id |-> Len(sessions) + 1]
    /\ UNCHANGED <<reqs, txn, model, users, detections, now>>

----------------------------------------------------------------------------
(* POST /sessions/{session_id}/end *)

\* a toggle instead of a stamp: ending an ended session reopens it
SetEndTime_toggle(sess, session_id, t) ==
    [i \in DOMAIN sess |->
        IF sess[i].id = session_id
        THEN [sess[i] EXCEPT
                 !.end_time = IF @ = NULL THEN t ELSE NULL]
        ELSE sess[i]]

\* UPDATE sessions SET end_time = ? WHERE id = ?
SetEndTime(sess, session_id, t) ==
    [i \in DOMAIN sess |->
        IF sess[i].id = session_id
        THEN [sess[i] EXCEPT !.end_time = t]
        ELSE sess[i]]

\* the rows of the table instead of the rows the UPDATE matched
RowCount_table(sess, session_id) == Len(sess)

\* cursor.rowcount of an UPDATE ... WHERE id = ?
RowCount(sess, session_id) ==
    Cardinality({i \in DOMAIN sess : sess[i].id = session_id})

end_session(session_id) ==
    /\ UNCHANGED <<reqs, txn, model, users, detections, now>>
    /\ IF RowCount(sessions, session_id) = 0
       THEN /\ resp' = [op |-> "end_session", session_id |-> session_id,
                        status |-> 404]
            /\ UNCHANGED sessions
       ELSE /\ sessions' = SetEndTime(sessions, session_id, now)
            /\ resp' = [op |-> "end_session", session_id |-> session_id,
                        status |-> 200]

----------------------------------------------------------------------------
(* infer_image and POST /detect/{session_id} *)

DrowsyLabels == {T_drowsy, T_sleepy, T_tired}

DrowsyThreshold == 7000

HighThreshold == 8000

\* what the YOLO call can do on a decoded image, when the model is loaded
Box(label, conf) == [kind |-> "box", label |-> label, conf |-> conf]

NoBoxes == [kind |-> "no_boxes"]

Raises == [kind |-> "raises"]

\* every failure of the classifier reported as a certain prediction
infer_image_certain(outcome) ==
    IF model = "None"
    THEN [prediction |-> T_model_error, confidence |-> 10000]
    ELSE IF outcome.kind = "raises"
    THEN [prediction |-> T_error, confidence |-> 10000]
    ELSE IF outcome.kind = "no_boxes"
    THEN [prediction |-> T_no_detection, confidence |-> 0]
    ELSE [prediction |-> outcome.label, confidence |-> outcome.conf]

infer_image(outcome) ==
    IF model = "None"
    THEN [prediction |-> T_model_error, confidence |-> 0]
    ELSE IF outcome.kind = "raises"
    THEN [prediction |-> T_error, confidence |-> 0]
    ELSE IF outcome.kind = "no_boxes"
    THEN [prediction |-> T_no_detection, confidence |-> 0]
    ELSE [prediction |-> outcome.label, confidence |-> outcome.conf]

\* the branch of infer_image a frame takes: "unavailable" when the model
\* did not load, else what the YOLO call did
ClassifierPath(outcome) ==
    IF model = "None" THEN "unavailable" ELSE outcome.kind

\* >= 0.7 instead of > 0.7
IsDrowsy_ge(result) ==
    /\ Lower(result.prediction) \in DrowsyLabels
    /\ result.confidence >= DrowsyThreshold

\* result["prediction"].lower() in ['drowsy', 'sleepy', 'tired']
\*     and result["confidence"] > 0.7
IsDrowsy(result) ==
    /\ Lower(result.prediction) \in DrowsyLabels
    /\ result.confidence > DrowsyThreshold

\* "high" if is_drowsy and result["confidence"] > 0.8 else "low"
AlertLevel(is_drowsy, result) ==
    IF is_drowsy /\ result.confidence > HighThreshold THEN "high" ELSE "low"

\* the foreign key enforced by dropping the row of an unknown session
InsertDetection_fk(dets, session_id, result, t) ==
    IF SessionExists(session_id)
    THEN Append(dets, [id |-> Len(dets) + 1, session_id |-> session_id,
                       timestamp |-> t, prediction |-> result.prediction,
                       confidence |-> result.confidence])
    ELSE dets

\* INSERT INTO detections (session_id, prediction, confidence, ...): the
\* timestamp takes its DEFAULT CURRENT_TIMESTAMP
InsertDetection(dets, session_id, result, t) ==
    Append(dets, [id |-> Len(dets) + 1, session_id |-> session_id,
                  timestamp |-> t, prediction |-> result.prediction,
                  confidence |-> result.confidence])

\* the two increments exchanged
UpdateSessionStats_swapped(sess, session_id, is_drowsy) ==
    [i \in DOMAIN sess |->
        IF sess[i].id = session_id
        THEN [sess[i] EXCEPT
                 !.total_detections = @ + (IF is_drowsy THEN 1 ELSE 0),
                 !.drowsy_detections = @ + 1]
        ELSE sess[i]]

\* the UPDATE without its WHERE clause
UpdateSessionStats_all(sess, session_id, is_drowsy) ==
    [i \in DOMAIN sess |->
        [sess[i] EXCEPT
            !.total_detections = @ + 1,
            !.drowsy_detections = @ + (IF is_drowsy THEN 1 ELSE 0)]]

\* UPDATE sessions SET total_detections = total_detections + 1,
\*     drowsy_detections = drowsy_detections + ? WHERE id = ?
UpdateSessionStats(sess, session_id, is_drowsy) ==
    [i \in DOMAIN sess |->
        IF sess[i].id = session_id
        THEN [sess[i] EXCEPT
                 !.total_detections = @ + 1,
                 !.drowsy_detections = @ + (IF is_drowsy THEN 1 ELSE 0)]
        ELSE sess[i]]

detect_drowsiness(session_id, decodable, outcome) ==
    /\ UNCHANGED <<reqs, txn, model, users, now>>
    /\ IF ~decodable
       THEN /\ resp' = [op |-> "detect", session_id |-> session_id,
                        decodable |-> decodable,
                        status |-> 200, success |-> FALSE]
            /\ UNCHANGED <<sessions, detections>>
       ELSE LET result == infer_image(outcome)
                is_drowsy == IsDrowsy(result)
            IN /\ detections' =
                      InsertDetection(detections, session_id, result, now)
               /\ sessions' =
                      UpdateSessionStats(sessions, session_id, is_drowsy)
               /\ resp' = [op |-> "detect", session_id |-> session_id,
                           decodable |-> decodable,
                           classifier |-> ClassifierPath(outcome),
                           status |-> 200, success |-> TRUE,
                           prediction |-> result.prediction,
                           confidence |-> result.confidence,
                           is_drowsy |-> is_drowsy,
                           alert_level |-> AlertLevel(is_drowsy, result)]

----------------------------------------------------------------------------
(* Query helpers *)

RECURSIVE SumSeq(_)
SumSeq(q) == IF q = <<>> THEN 0 ELSE Head(q) + SumSeq(Tail(q))

\* SUM(column) over the selected rows; Python's "x if x else 0" maps the
\* NULL of an empty selection to 0
SumTotalDetections(rows) ==
    SumSeq([i \in DOMAIN rows |-> rows[i].total_detections])

SumDrowsyDetections(rows) ==
    SumSeq([i \in DOMAIN rows |-> rows[i].drowsy_detections])

Perms(S) ==
    {f \in [1..Cardinality(S) -> S] :
        \A i, j \in 1..Cardinality(S) : i # j => f[i] # f[j]}

\* ORDER BY start_time DESC: rows of equal start_time come in any order
ByStartTimeDesc(S) ==
    {f \in Perms(S) :
        \A i, j \in DOMAIN f : i < j => f[i].start_time >= f[j].start_time}

\* ORDER BY timestamp [DESC]: rows of equal timestamp come in any order
ByTimestampAsc(S) ==
    {f \in Perms(S) :
        \A i, j \in DOMAIN f : i < j => f[i].timestamp <= f[j].timestamp}

ByTimestampDesc(S) ==
    {f \in Perms(S) :
        \A i, j \in DOMAIN f : i < j => f[i].timestamp >= f[j].timestamp}

\* LIMIT n
Limit(q, n) == SubSeq(q, 1, IF Len(q) < n THEN Len(q) ELSE n)

DetectionsOf(session_id) ==
    {d \in Rows(detections) : d.session_id = session_id}

----------------------------------------------------------------------------
(* GET /users/{user_id}/dashboard *)

RecentLimit == 10

\* the filter on end_time forgotten
EndedSessionsOf_all(user_id) ==
    SelectSeq(sessions, LAMBDA s : s.user_id = user_id)

\* WHERE user_id = ? AND end_time IS NOT NULL
EndedSessionsOf(user_id) ==
    SelectSeq(sessions,
              LAMBDA s : s.user_id = user_id /\ s.end_time # NULL)

\* round(x, 1) of the non-negative x = num / (10 * den), in tenths.
\* Python rounds the double nearest to x; that is the tenth nearest to x
\* whenever x is not halfway between two tenths, which for a safety score
\* needs total_detections to be a multiple of 32.
RoundTenths(num, den) ==
    LET q == num \div den
        r == num % den
    IN IF 2 * r < den THEN q
       ELSE IF 2 * r > den THEN q + 1
       ELSE IF q % 2 = 0 THEN q ELSE q + 1

\* drowsy_percentage = (total_drowsy / total_detections) * 100
\* safety_score = max(0, 100 - (drowsy_percentage * 2)), or 100 without
\* detections; round(safety_score, 1).  In tenths.
SafetyScore(total_drowsy, total_detections) ==
    IF total_detections > 0
    THEN LET x == 1000 * total_detections - 2000 * total_drowsy
         IN RoundTenths(IF x > 0 THEN x ELSE 0, total_detections)
    ELSE 1000

get_dashboard(user_id) ==
    /\ UNCHANGED <<reqs, txn, model, users, sessions, detections, now>>
    /\ LET stats == EndedSessionsOf(user_id)
           total_detections == SumTotalDetections(stats)
           total_drowsy == SumDrowsyDetections(stats)
       IN \E recent \in ByStartTimeDesc(Rows(stats)) :
             resp' = [op |-> "get_dashboard", status |-> 200,
                      user_id |-> user_id,
                      total_sessions |-> Len(stats),
                      total_alerts |-> total_drowsy,
                      total_detections |-> total_detections,
                      safety_score |->
                          SafetyScore(total_drowsy, total_detections),
                      recent_sessions |->
                          [i \in DOMAIN Limit(recent, RecentLimit) |->
                              [id |-> recent[i].id,
                               alerts |-> recent[i].drowsy_detections,
                               total_detections |->
                                   recent[i].total_detections,
                               detection_count |->
                                   Cardinality(DetectionsOf(recent[i].id))]]]

----------------------------------------------------------------------------
(* GET /admin/dashboard *)

LogLimit == 50

\* FROM sessions s JOIN users u ON s.user_id = u.id WHERE s.end_time IS NULL
ActiveSessionRows ==
    {s \in Rows(sessions) : s.end_time = NULL /\ UserExists(s.user_id)}

\* is_drowsy = latest_prediction and 'drowsy' in latest_prediction.lower(),
\* as the JSON value of "latest_drowsy", for a prediction that is not NULL
LatestDrowsy(latest_prediction) ==
    IF Len(latest_prediction) = 0 THEN "\"\""
    ELSE IF Contains(T_drowsy, Lower(latest_prediction)) THEN "true"
    ELSE "false"

\* SELECT d.prediction ... WHERE d.session_id = s.id
\*     ORDER BY d.timestamp DESC LIMIT 1
\* CURRENT_TIMESTAMP has a resolution of one second: among the rows of the
\* greatest timestamp SQLite may return any one.  Without rows the
\* prediction is NULL and "latest_drowsy" is null.
LatestDrowsyValues(session_id) ==
    LET D == DetectionsOf(session_id)
    IN IF D = {} THEN {"null"}
       ELSE {LatestDrowsy(d.prediction) :
                d \in {e \in D : \A f \in D : f.timestamp <= e.timestamp}}

\* the "if is_drowsy:" test
Truthy(json) == json = "true"

\* FROM detections d JOIN sessions s ON d.session_id = s.id
\*     JOIN users u ON s.user_id = u.id
LogRows ==
    {d \in Rows(detections) :
        \E s \in Rows(sessions) : s.id = d.session_id /\ UserExists(s.user_id)}

get_admin_dashboard ==
    /\ UNCHANGED <<reqs, txn, model, users, sessions, detections, now>>
    /\ \E active_sessions \in ByStartTimeDesc(ActiveSessionRows),
          recent_logs \in ByTimestampDesc(LogRows) :
       \E latest \in [DOMAIN active_sessions ->
                          {"null", "\"\"", "true", "false"}] :
          /\ \A i \in DOMAIN active_sessions :
                latest[i] \in LatestDrowsyValues(active_sessions[i].id)
          /\ resp' =
               [op |-> "get_admin_dashboard", status |-> 200,
                total_drivers |->
                    Cardinality({u \in Rows(users) : u.role = "driver"}),
                active_drivers |-> Len(active_sessions),
                drowsy_drivers |->
                    Cardinality({i \in DOMAIN active_sessions :
                                    Truthy(latest[i])}),
                total_sessions |->
                    Cardinality({s \in Rows(sessions) : s.end_time # NULL}),
                active_sessions |->
                    [i \in DOMAIN active_sessions |->
                        [session_id |-> active_sessions[i].id,
                         user_id |-> active_sessions[i].user_id,
                         total_detections |->
                             active_sessions[i].total_detections,
                         alerts |-> active_sessions[i].drowsy_detections,
                         latest_drowsy |-> latest[i]]],
                recent_logs |->
                    [i \in DOMAIN Limit(recent_logs, LogLimit) |->
                        recent_logs[i].id]]

----------------------------------------------------------------------------
(* GET /sessions/{session_id}/details *)

\* The handler's only except clause is "except Exception", and HTTPException
\* is an Exception: whatever is raised inside the try block leaves as a 500.
DetailsExcept(raised) == 500

get_session_details(session_id) ==
    /\ UNCHANGED <<reqs, txn, model, users, sessions, detections, now>>
    /\ IF ~SessionExists(session_id)
       THEN resp' = [op |-> "get_session_details",
                     status |-> DetailsExcept(404),
                     session_id |-> session_id]
       ELSE \E dets \in ByTimestampAsc(DetectionsOf(session_id)) :
               resp' = [op |-> "get_session_details", status |-> 200,
                        session_id |-> session_id,
                        session |->
                            CHOOSE s \in Rows(sessions) : s.id = session_id,
                        detections |-> dets]

----------------------------------------------------------------------------
(* Requests *)

Usernames == {"admin", "ann"}

Emails == {"admin@drowsyguard.com", "ann@example.com"}

Roles == {"driver", "admin"}

\* user 1 is the default admin; user 2 is unknown until a driver registers
UserIdInputs == {1, 2}

\* every stored session id and the first id that is not stored
SessionIdInputs == 1..(Len(sessions) + 1)

\* what the YOLO call does on a decoded frame: no box, an exception, or a top
\* box.  "Drowsy" at 0.65 is below the threshold of detect_drowsiness and
\* contains "drowsy"; "tired" at 0.75 is above it and does not.
ModelOutcomes == {NoBoxes, Raises, Box(T_Drowsy, 6500), Box(T_tired, 7500)}

\* the rows inserted after start-up and the seconds passed
Written == (Len(users) - 1) + Len(sessions) + Len(detections) + now

Writes ==
    \/ /\ Written < MaxWrites
       /\ Tick
    \/ /\ Written < MaxWrites
       /\ \E u \in Usernames, e \in Emails, r \in Roles :
             register_user(u, e, r)
    \/ /\ Written < MaxWrites
       /\ \E user_id \in UserIdInputs : start_session(user_id)
    \/ \E session_id \in SessionIdInputs : end_session(session_id)
    \/ /\ Written < MaxWrites
       /\ \E session_id \in SessionIdInputs, decodable \in BOOLEAN,
             outcome \in ModelOutcomes :
             detect_drowsiness(session_id, decodable, outcome)

Reads ==
    \/ \E user_id \in UserIdInputs : get_dashboard(user_id)
    \/ get_admin_dashboard
    \/ \E session_id \in SessionIdInputs : get_session_details(session_id)

Next == Writes \/ Reads

Spec == Init /\ [][Next]_vars

----------------------------------------------------------------------------
(* The safety score over longer sessions: two users start and end sessions, *)
(* frames are classified drowsy ("tired" at 0.75) or not (no box), and the  *)
(* dashboards are read, all within one second of the clock.                 *)

ScoreOutcomes == {NoBoxes, Box(T_tired, 7500)}

NextScore ==
    \/ /\ Written < MaxScoreWrites
       /\ \E user_id \in UserIdInputs : start_session(user_id)
    \/ \E session_id \in SessionIdInputs : end_session(session_id)
    \/ /\ Written < MaxScoreWrites
       /\ \E session_id \in SessionIdInputs, outcome \in ScoreOutcomes :
             detect_drowsiness(session_id, TRUE, outcome)
    \/ \E user_id \in UserIdInputs : get_dashboard(user_id)

SpecScore == Init /\ [][NextScore]_vars

----------------------------------------------------------------------------
(* The classification of one frame, over many labels and confidences *)

ClassifyLabels ==
    {T_drowsy, T_Drowsy, T_sleepy, T_tired, T_TIRED, T_awake, T_not_drowsy}

ClassifyConfidences == {0, 6500, 6999, 7000, 7001, 7500, 8000, 8001, 8500}

ClassifyOutcomes ==
    {NoBoxes, Raises}
    \cup {Box(l, c) : l \in ClassifyLabels, c \in ClassifyConfidences}

NextClassify ==
    \/ /\ Len(sessions) < 1
       /\ start_session(1)
    \/ /\ Len(detections) < MaxFrames
       /\ \E session_id \in SessionIdInputs, decodable \in BOOLEAN,
             outcome \in ClassifyOutcomes :
             detect_drowsiness(session_id, decodable, outcome)

SpecClassify == Init /\ [][NextClassify]_vars

----------------------------------------------------------------------------
(* detect_drowsiness one SQL statement at a time. Every request runs on a   *)
(* connection of its own (get_db_connection), in this process or in another *)
(* worker on the same drowsiness.db. The connection keeps sqlite3's default *)
(* isolation level: the INSERT opens a transaction and takes the write lock *)
(* of the file, the INSERT and the UPDATE stay uncommitted and invisible to *)
(* every other connection until conn.commit(), a statement that cannot get  *)
(* the lock raises "database is locked" once the busy timeout has passed,   *)
(* and what a dead process left uncommitted is rolled back from the journal *)
(* by the next connection.                                                  *)

\* the frame is read, decoded and classified; no statement has run yet
detect_classify(r, session_id, outcome) ==
    /\ reqs[r].pc = "idle"
    /\ LET result == infer_image(outcome)
       IN reqs' = [reqs EXCEPT ![r] =
                      [pc |-> "classified", session_id |-> session_id,
                       result |-> result, is_drowsy |-> IsDrowsy(result)]]
    /\ UNCHANGED <<txn, model, users, sessions, detections, now, resp>>

\* autocommit (isolation_level = None): the row is stored by the INSERT
detect_insert_autocommit(r) ==
    /\ reqs[r].pc = "classified"
    /\ txn.owner = 0
    /\ detections' = InsertDetection(detections, reqs[r].session_id,
                                     reqs[r].result, now)
    /\ txn' = [owner |-> r, sessions |-> sessions,
               detections |-> detections']
    /\ reqs' = [reqs EXCEPT ![r].pc = "inserted"]
    /\ UNCHANGED <<model, users, sessions, now, resp>>

\* cursor.execute("INSERT INTO detections ..."): BEGIN, then the row goes
\* into the transaction
detect_insert(r) ==
    /\ reqs[r].pc = "classified"
    /\ txn.owner = 0
    /\ txn' = [owner |-> r, sessions |-> sessions,
               detections |-> InsertDetection(detections, reqs[r].session_id,
                                              reqs[r].result, now)]
    /\ reqs' = [reqs EXCEPT ![r].pc = "inserted"]
    /\ UNCHANGED <<model, users, sessions, detections, now, resp>>

\* the lock error swallowed and the frame reported as recorded
detect_locked_swallowed(r) ==
    /\ reqs[r].pc = "classified"
    /\ txn.owner # 0
    /\ reqs' = [reqs EXCEPT ![r].pc = "done"]
    /\ resp' = [op |-> "detect", session_id |-> reqs[r].session_id,
                decodable |-> TRUE, status |-> 200, success |-> TRUE]
    /\ UNCHANGED <<txn, model, users, sessions, detections, now>>

\* the INSERT while another connection holds the write lock: sqlite3 raises
\* OperationalError, "except Exception" answers success False
detect_locked(r) ==
    /\ reqs[r].pc = "classified"
    /\ txn.owner # 0
    /\ reqs' = [reqs EXCEPT ![r].pc = "failed"]
    /\ resp' = [op |-> "detect", session_id |-> reqs[r].session_id,
                decodable |-> TRUE, status |-> 200, success |-> FALSE]
    /\ UNCHANGED <<txn, model, users, sessions, detections, now>>

\* cursor.execute("UPDATE sessions SET ..."), in the same transaction
detect_update(r) ==
    /\ reqs[r].pc = "inserted"
    /\ txn.owner = r
    /\ txn' = [txn EXCEPT !.sessions =
                  UpdateSessionStats(@, reqs[r].session_id,
                                     reqs[r].is_drowsy)]
    /\ reqs' = [reqs EXCEPT ![r].pc = "updated"]
    /\ UNCHANGED <<model, users, sessions, detections, now, resp>>

\* conn.commit(), conn.close() and the return of the result
detect_commit(r) ==
    /\ reqs[r].pc = "updated"
    /\ txn.owner = r
    /\ sessions' = txn.sessions
    /\ detections' = txn.detections
    /\ txn' = NoTxn
    /\ reqs' = [reqs EXCEPT ![r].pc = "done"]
    /\ resp' = [op |-> "detect", session_id |-> reqs[r].session_id,
                decodable |-> TRUE, status |-> 200, success |-> TRUE,
                prediction |-> reqs[r].result.prediction,
                confidence |-> reqs[r].result.confidence,
                is_drowsy |-> reqs[r].is_drowsy,
                alert_level |-> AlertLevel(reqs[r].is_drowsy,
                                           reqs[r].result)]
    /\ UNCHANGED <<model, users, now>>

\* the process serving request r dies between two statements: the request
\* is never answered and its open transaction is rolled back
crash(r) ==
    /\ reqs[r].pc \in {"classified", "inserted", "updated"}
    /\ reqs' = [reqs EXCEPT ![r] =
                   [pc |-> "crashed", at |-> reqs[r].pc,
                    session_id |-> reqs[r].session_id,
                    result |-> reqs[r].result,
                    is_drowsy |-> reqs[r].is_drowsy]]
    /\ txn' = IF txn.owner = r THEN NoTxn ELSE txn
    /\ UNCHANGED <<model, users, sessions, detections, now, resp>>

\* the UPDATE of end_session while another connection holds the write lock:
\* OperationalError, raised again as HTTPException(500)
end_session_locked(session_id) ==
    /\ txn.owner # 0
    /\ resp' = [op |-> "end_session", session_id |-> session_id,
                status |-> 500]
    /\ UNCHANGED <<reqs, txn, model, users, sessions, detections, now>>

StoredSessionIds == {s.id : s \in Rows(sessions)}

\* one driver's sessions are started and ended while frames for stored
\* sessions are recorded statement by statement, drowsy ("tired" at 0.75)
\* or not (no box)
NextStatements ==
    \/ /\ Len(sessions) < 2
       /\ txn.owner = 0
       /\ start_session(1)
    \/ /\ txn.owner = 0
       /\ \E session_id \in StoredSessionIds : end_session(session_id)
    \/ \E session_id \in StoredSessionIds : end_session_locked(session_id)
    \/ \E r \in Requests, session_id \in StoredSessionIds,
          outcome \in ScoreOutcomes :
          detect_classify(r, session_id, outcome)
    \/ \E r \in Requests : detect_insert(r)
    \/ \E r \in Requests : detect_locked(r)
    \/ \E r \in Requests : detect_update(r)
    \/ \E r \in Requests : detect_commit(r)
    \/ \E r \in Requests : crash(r)

SpecStatements == Init /\ [][NextStatements]_vars

----------------------------------------------------------------------------
(* Properties *)

\* a step of the handler op: every handler names itself in resp and leaves
\* the clock alone, and Tick leaves resp alone
Handled(op) == resp'.op = op /\ now' = now

SessionWithId(sess, session_id) ==
    CHOOSE s \in Rows(sess) : s.id = session_id

\* C1: in every reachable state every stored session has
\* drowsy_detections <= total_detections.
C1_DrowsyAtMostTotal ==
    \A s \in Rows(sessions) : s.drowsy_detections <= s.total_detections

\* a session with a drowsy and a non-drowsy detection counted
C1_Witness ==
    \E s \in Rows(sessions) :
        s.drowsy_detections = 1 /\ s.total_detections = 2

\* C2: a completed recordDetection on an existing session s appends exactly
\* one Detection row, for s, adds 1 to s.total_detections and 1 or 0 to
\* s.drowsy_detections as isDrowsy holds or not, and changes no other session.
C2_RecordDetectionEffect ==
    [][(Handled("detect") /\ resp'.decodable
           /\ SessionExists(resp'.session_id))
       => /\ resp'.success
          /\ Len(detections') = Len(detections) + 1
          /\ SubSeq(detections', 1, Len(detections)) = detections
          /\ detections'[Len(detections')].session_id = resp'.session_id
          /\ detections'[Len(detections')].prediction = resp'.prediction
          /\ detections'[Len(detections')].confidence = resp'.confidence
          /\ DOMAIN sessions' = DOMAIN sessions
          /\ \A i \in DOMAIN sessions :
                IF sessions[i].id = resp'.session_id
                THEN sessions'[i] =
                        [sessions[i] EXCEPT
                            !.total_detections = @ + 1,
                            !.drowsy_detections =
                                @ + (IF resp'.is_drowsy THEN 1 ELSE 0)]
                ELSE sessions'[i] = sessions[i]
          /\ ((Lower(resp'.prediction) = T_tired /\ resp'.confidence = 7500)
                 => resp'.is_drowsy)]_vars

\* a drowsy detection was recorded on one of two sessions
C2_Witness ==
    /\ resp.op = "detect"
    /\ resp.success
    /\ resp.is_drowsy
    /\ Len(sessions) = 2
    /\ SessionExists(resp.session_id)
    /\ SessionWithId(sessions, resp.session_id).drowsy_detections = 1

\* C3: recordDetection returns isDrowsy = true exactly when the lower-cased
\* label is "drowsy", "sleepy" or "tired" and the confidence is above 0.7,
\* and alertLevel "high" exactly when isDrowsy and the confidence is above
\* 0.8, else "low"; "tired" at 0.65 and a matching label at exactly 0.7 are
\* not drowsy, "Drowsy" at 0.85 is drowsy with alert level high.
C3_Classification ==
    (resp.op = "detect" /\ resp.success)
    => /\ resp.is_drowsy
            <=> /\ Lower(resp.prediction) \in {T_drowsy, T_sleepy, T_tired}
                /\ resp.confidence > 7000
       /\ resp.alert_level \in {"high", "low"}
       /\ resp.alert_level = "high"
            <=> (resp.is_drowsy /\ resp.confidence > 8000)
       /\ (resp.prediction = T_tired /\ resp.confidence = 6500)
            => ~resp.is_drowsy
       /\ resp.confidence = 7000 => ~resp.is_drowsy
       /\ (resp.prediction = T_Drowsy /\ resp.confidence = 8500)
            => (resp.is_drowsy /\ resp.alert_level = "high")

\* a matching label at exactly 0.7 was classified
C3_Witness ==
    /\ resp.op = "detect"
    /\ resp.success
    /\ resp.prediction = T_Drowsy
    /\ resp.confidence = 7000
    /\ ~resp.is_drowsy
    /\ resp.alert_level = "low"

\* C4: startSession creates the session active (end_time null) with both
\* counters zero; endSession on a stored session succeeds, also when the
\* session has ended, and stamps end_time with the current time; no step
\* removes a session or makes the end_time of an ended session null again.
C4_Lifecycle ==
    [][/\ Handled("start_session")
          => /\ Len(sessions') = Len(sessions) + 1
             /\ SubSeq(sessions', 1, Len(sessions)) = sessions
             /\ sessions'[Len(sessions')].id = resp'.session_id
             /\ sessions'[Len(sessions')].end_time = NULL
             /\ sessions'[Len(sessions')].total_detections = 0
             /\ sessions'[Len(sessions')].drowsy_detections = 0
       /\ (Handled("end_session") /\ SessionExists(resp'.session_id))
          => /\ resp'.status = 200
             /\ SessionWithId(sessions', resp'.session_id).end_time = now
             /\ now # NULL
       /\ \A i \in DOMAIN sessions :
             /\ i \in DOMAIN sessions'
             /\ sessions'[i].id = sessions[i].id
             /\ sessions[i].end_time # NULL => sessions'[i].end_time # NULL
      ]_vars

\* a detection was recorded on a session that had ended
C4_Witness ==
    /\ resp.op = "detect"
    /\ resp.success
    /\ SessionExists(resp.session_id)
    /\ SessionWithId(sessions, resp.session_id).end_time # NULL
    /\ SessionWithId(sessions, resp.session_id).total_detections = 1

\* C5: endSession with an id for which no session exists answers NotFound
\* and leaves the stored users, sessions and detections as they were.
C5_EndUnknownSession ==
    [][(Handled("end_session") /\ ~SessionExists(resp'.session_id))
       => /\ resp'.status = 404
          /\ db' = db]_vars

\* NotFound was answered while a session and a detection are stored
C5_Witness ==
    /\ resp.op = "end_session"
    /\ resp.status = 404
    /\ ~SessionExists(resp.session_id)
    /\ Len(sessions) > 0
    /\ Len(detections) > 0

\* C6: sessionDetail with an id for which no session exists fails with
\* NotFound, distinct from the internal-failure answer; for a stored
\* session it returns the session and its detections, ascending in timestamp.
C6_SessionDetail ==
    resp.op = "get_session_details"
    => IF SessionExists(resp.session_id)
       THEN /\ resp.status = 200
            /\ resp.session = SessionWithId(sessions, resp.session_id)
            /\ Len(resp.detections)
                  = Cardinality(DetectionsOf(resp.session_id))
            /\ {resp.detections[i] : i \in DOMAIN resp.detections}
                  = DetectionsOf(resp.session_id)
            /\ \A i, j \in DOMAIN resp.detections :
                  i < j => resp.detections[i].timestamp
                              <= resp.detections[j].timestamp
       ELSE resp.status = 404

\* C7: recordDetection with a sessionId for which no session exists raises no
\* error and returns a normal DetectionResult, changes no session, and
\* appends a Detection row that carries the unknown session id.
C7_RecordUnknownSession ==
    [][(Handled("detect") /\ resp'.decodable
           /\ ~SessionExists(resp'.session_id))
       => /\ resp'.status = 200
          /\ resp'.success
          /\ resp'.alert_level \in {"high", "low"}
          /\ sessions' = sessions
          /\ users' = users
          /\ Len(detections') = Len(detections) + 1
          /\ SubSeq(detections', 1, Len(detections)) = detections
          /\ detections'[Len(detections')].session_id = resp'.session_id
          /\ detections'[Len(detections')].prediction = resp'.prediction
          /\ \A s \in Rows(sessions') :
                s.id # detections'[Len(detections')].session_id]_vars

\* a Detection that references no stored Session, beside a stored session
C7_Witness ==
    /\ resp.op = "detect"
    /\ resp.success
    /\ ~SessionExists(resp.session_id)
    /\ Len(sessions) > 0
    /\ \E d \in Rows(detections) :
          d.session_id = resp.session_id /\ ~SessionExists(d.session_id)

\* the sums of the claim: over the stored sessions of the user that have ended
C8_TotalDetections(user_id) ==
    SumSeq([i \in DOMAIN sessions |->
              IF sessions[i].user_id = user_id /\ sessions[i].end_time # NULL
              THEN sessions[i].total_detections ELSE 0])

C8_TotalDrowsy(user_id) ==
    SumSeq([i \in DOMAIN sessions |->
              IF sessions[i].user_id = user_id /\ sessions[i].end_time # NULL
              THEN sessions[i].drowsy_detections ELSE 0])

\* 10 * t * max(0, 100 - 2 * (100 * d / t))
C8_Exact(d, t) == IF 1000 * t - 2000 * d > 0 THEN 1000 * t - 2000 * d ELSE 0

\* C8, amended: driverSafetyScore sums the counters of the user's ended
\* sessions only; it is 100.0 when the summed total is 0, otherwise
\* max(0, 100 - 2 * (100 * totalDrowsy / totalDetections)) rounded to one
\* decimal place (a whole number of tenths at most 0.05 away); it lies in
\* [0, 100] and is 50.0 for total 100 with 25 drowsy.
C8_SafetyScoreRounded ==
    /\ SafetyScore(25, 100) = 500
    /\ resp.op = "get_dashboard"
       => LET t == C8_TotalDetections(resp.user_id)
              d == C8_TotalDrowsy(resp.user_id)
              score == resp.safety_score
          IN /\ resp.total_detections = t
             /\ resp.total_alerts = d
             /\ score \in 0..1000
             /\ t = 0 => score = 1000
             /\ t > 0 => /\ 2 * (score * t - C8_Exact(d, t)) <= t
                         /\ 2 * (C8_Exact(d, t) - score * t) <= t

\* C8 as stated: the score is exactly
\* max(0, 100 - 2 * (100 * totalDrowsy / totalDetections)).
C8_SafetyScoreExact ==
    /\ SafetyScore(25, 100) = 500
    /\ resp.op = "get_dashboard"
       => LET t == C8_TotalDetections(resp.user_id)
              d == C8_TotalDrowsy(resp.user_id)
              score == resp.safety_score
          IN /\ resp.total_detections = t
             /\ resp.total_alerts = d
             /\ score \in 0..1000
             /\ t = 0 => score = 1000
             /\ t > 0 => score * t = C8_Exact(d, t)

\* the score of a user whose ended session has one drowsy detection and whose
\* active session has a detection too: 100 - 200 is cut off at 0
C8_Witness ==
    /\ resp.op = "get_dashboard"
    /\ resp.total_detections = 1
    /\ resp.total_alerts = 1
    /\ resp.safety_score = 0
    /\ \E s \in Rows(sessions) :
          /\ s.user_id = resp.user_id
          /\ s.end_time = NULL
          /\ s.total_detections = 1

\* the detections of a session that have its greatest timestamp
C9_Latest(session_id) ==
    {d \in DetectionsOf(session_id) :
        \A e \in DetectionsOf(session_id) : e.timestamp <= d.timestamp}

\* C9: drowsyDriverCount is the number of active sessions whose most recent
\* Detection has a label containing "drowsy", whatever its case and its
\* confidence; it counts sessions, not drivers; an active session without
\* detections counts 0.  Where several detections share the greatest
\* timestamp, any of them may be the most recent one.
C9_DrowsyDriverCount ==
    resp.op = "get_admin_dashboard"
    => LET active == {s \in Rows(sessions) : s.end_time = NULL}
           surely == {s \in active :
                         /\ C9_Latest(s.id) # {}
                         /\ \A d \in C9_Latest(s.id) :
                               Contains(T_drowsy, Lower(d.prediction))}
           maybe == {s \in active :
                        \E d \in C9_Latest(s.id) :
                            Contains(T_drowsy, Lower(d.prediction))}
       IN /\ Cardinality(surely) <= resp.drowsy_drivers
          /\ resp.drowsy_drivers <= Cardinality(maybe)

\* C10: activeSessions lists every stored session whose end_time is null and
\* no other, each once, and activeDriverCount is its length; the sessions of
\* a userId that references no stored user are among them.
C10_ActiveSessions ==
    resp.op = "get_admin_dashboard"
    => /\ {resp.active_sessions[i].session_id :
              i \in DOMAIN resp.active_sessions}
             = {s.id : s \in {r \in Rows(sessions) : r.end_time = NULL}}
       /\ \A i, j \in DOMAIN resp.active_sessions :
             i # j => resp.active_sessions[i].session_id
                         # resp.active_sessions[j].session_id
       /\ resp.active_drivers = Len(resp.active_sessions)


\* the sentinel label of each failing branch of the classifier
Sentinel(path) ==
    CASE path = "unavailable" -> T_model_error
      [] path = "no_boxes" -> T_no_detection
      [] path = "raises" -> T_error

\* C12: when the classifier is unavailable, finds no object or raises,
\* recordDetection on a decodable frame still succeeds: it appends a
\* Detection with the sentinel label of that failure and confidence 0.0,
\* returns isDrowsy = false and alertLevel "low", and for an existing
\* session adds 1 to total_detections and nothing to drowsy_detections.
C12_ClassifierFailure ==
    [][(Handled("detect") /\ resp'.decodable
           /\ resp'.classifier \in {"unavailable", "no_boxes", "raises"})
       => /\ resp'.status = 200
          /\ resp'.success
          /\ resp'.prediction = Sentinel(resp'.classifier)
          /\ resp'.confidence = 0
          /\ ~resp'.is_drowsy
          /\ resp'.alert_level = "low"
          /\ Len(detections') = Len(detections) + 1
          /\ detections'[Len(detections')].session_id = resp'.session_id
          /\ detections'[Len(detections')].prediction
                 = Sentinel(resp'.classifier)
          /\ detections'[Len(detections')].confidence = 0
          /\ SessionExists(resp'.session_id)
                 => LET old == SessionWithId(sessions, resp'.session_id)
                        new == SessionWithId(sessions', resp'.session_id)
                    IN /\ new.total_detections = old.total_detections + 1
                       /\ new.drowsy_detections = old.drowsy_detections]_vars

\* a frame on which the YOLO call raised, recorded for an existing session
\* as the first and only detection it counts
C12_Witness ==
    /\ resp.op = "detect"
    /\ resp.decodable
    /\ resp.classifier = "raises"
    /\ resp.success
    /\ SessionExists(resp.session_id)
    /\ SessionWithId(sessions, resp.session_id).total_detections = 1
    /\ SessionWithId(sessions, resp.session_id).drowsy_detections = 0
    /\ detections[Len(detections)].prediction = T_error


\* the requests whose commit has returned, for the session session_id
Done(session_id) ==
    {r \in Requests :
        reqs[r].pc = "done" /\ reqs[r].session_id = session_id}

\* the rows of detections stored for the session session_id
StoredDetectionsOf(dets, session_id) ==
    {i \in DOMAIN dets : dets[i].session_id = session_id}

\* C11 as claimed: when a recordDetection for a stored session crashes after
\* its INSERT statement and before its UPDATE statement, the persisted state
\* holds more Detection rows of that session than its total_detections
\* counts.
C11_CrashLeavesStaleCounter ==
    [][\A r \in Requests :
          (reqs[r].pc = "inserted" /\ reqs'[r].pc = "crashed")
          => Cardinality(StoredDetectionsOf(detections',
                                            reqs[r].session_id))
                > SessionWithId(sessions', reqs[r].session_id)
                      .total_detections]_vars

\* C11: recordDetection's two writes are one atomic unit. In every persisted
\* state, a crash between the INSERT and the UPDATE included, every stored
\* session has exactly as many Detection rows as its total_detections
\* counts, and the Detection rows are those of the requests that committed.
C11_WritesAreAtomic ==
    /\ \A s \in Rows(sessions) :
           Cardinality(StoredDetectionsOf(detections, s.id))
              = s.total_detections
    /\ Len(detections)
          = Cardinality({r \in Requests : reqs[r].pc = "done"})

\* a request crashed after its INSERT and before its UPDATE, on a session
\* for which another request was recorded
C11_Witness ==
    \E r \in Requests :
        /\ reqs[r].pc = "crashed"
        /\ reqs[r].at = "inserted"
        /\ SessionExists(reqs[r].session_id)
        /\ Done(reqs[r].session_id) # {}
        /\ SessionWithId(sessions, reqs[r].session_id).total_detections = 1

\* C13: whatever the interleaving of the statements of concurrent
\* recordDetection requests, of endSession and of crashes, every stored
\* session's total_detections is the number of requests for it that
\* completed, its drowsy_detections the number of those with isDrowsy true,
\* and it has that many Detection rows as well.
C13_NoLostIncrement ==
    \A s \in Rows(sessions) :
        /\ s.total_detections = Cardinality(Done(s.id))
        /\ s.drowsy_detections
              = Cardinality({r \in Done(s.id) : reqs[r].is_drowsy})
        /\ Cardinality(StoredDetectionsOf(detections, s.id))
              = Cardinality(Done(s.id))

\* two requests, one of them drowsy, both completed on a session that has
\* been ended
C13_Witness ==
    \E s \in Rows(sessions) :
        /\ Cardinality(Done(s.id)) = 2
        /\ \E r \in Done(s.id) : reqs[r].is_drowsy
        /\ \E r \in Done(s.id) : ~reqs[r].is_drowsy
        /\ s.end_time # NULL
        /\ s.total_detections = 2
        /\ s.drowsy_detections = 1

====
